---------------------------- MODULE Spec2Model ----------------------------
(***************************************************************************)
(* A state-machine model of the cloth simulation core (ClothSystem) of     *)
(* sameersaeed/cloth-simulator.                                            *)
(*                                                                         *)
(* Numbers.  The program computes in 32-bit floats; the model computes in  *)
(* fixed point.  A length, a mass, a coefficient or an angle x is held as  *)
(* the integer round(x * Scale); a time t (seconds) is held as the integer *)
(* t * TimeScale, so that the fixed step 1/60 s is exactly 50 ticks and    *)
(* the caller's clamp 0.016 s is exactly 48 ticks.  Every product and      *)
(* quotient rounds to nearest (RDiv).  A glm::vec3 is a tuple <<x, y, z>>. *)
(* Container indices are the program's (0-based); a std::vector is a       *)
(* sequence, so element i of the program is element i + 1 of the sequence. *)
(***************************************************************************)
EXTENDS Integers, Sequences, FiniteSets, TLC

\* Fixed-point resolution of a float holding a length, mass or coefficient.
Scale == 1000
\* Ticks per second: resolution of a float holding a time.
TimeScale == 3000

-----------------------------------------------------------------------------
(* Bounds of the exploration. *)

\* Largest grid width and height constructed.
MaxGrid == 3
\* Number of public operations called on the object after construction.
MaxOps == 3

-----------------------------------------------------------------------------
(* Arithmetic. *)

Abs(a) == IF a < 0 THEN -a ELSE a

Max(a, b) == IF a >= b THEN a ELSE b

\* a / b rounded to nearest, b > 0.
RDiv(a, b) == (a + (b \div 2)) \div b

\* a * b of two fixed-point numbers.
Mul(a, b) == RDiv(a * b, Scale)

RECURSIVE SqrtIter(_, _, _)
SqrtIter(n, lo, hi) ==
    IF lo >= hi THEN lo
    ELSE LET mid == (lo + hi + 1) \div 2
         IN  IF mid * mid <= n THEN SqrtIter(n, mid, hi)
                               ELSE SqrtIter(n, lo, mid - 1)

\* floor(sqrt(n)) for 0 <= n < 2^31.
Isqrt(n) == SqrtIter(n, 0, IF n < 46340 THEN n ELSE 46340)

Vec3(x, y, z) == <<x, y, z>>

Zero3 == <<0, 0, 0>>

VAdd(a, b) == <<a[1] + b[1], a[2] + b[2], a[3] + b[3]>>

VSub(a, b) == <<a[1] - b[1], a[2] - b[2], a[3] - b[3]>>

\* v * (num / den): a vector times a scalar given as a ratio.
VScale(v, num, den) ==
    <<RDiv(v[1] * num, den), RDiv(v[2] * num, den), RDiv(v[3] * num, den)>>

\* glm::dot of two fixed-point vectors, at resolution Scale * Scale.
Dot2(a, b) == a[1] * b[1] + a[2] * b[2] + a[3] * b[3]

\* glm::length
Length(v) == Isqrt(Dot2(v, v))

\* glm::cross, at resolution Scale.
Cross(a, b) ==
    <<RDiv(a[2] * b[3] - a[3] * b[2], Scale),
      RDiv(a[3] * b[1] - a[1] * b[3], Scale),
      RDiv(a[1] * b[2] - a[2] * b[1], Scale)>>

\* glm::normalize: v / |v|.  A long vector is first shortened (normalize is
\* scale-invariant) so that its squared length stays in range.  The zero
\* vector has no direction: float division gives NaN, held here as Zero3.
Normalize(v) ==
    LET m == Max(Abs(v[1]), Max(Abs(v[2]), Abs(v[3])))
        k == (m \div 20000) + 1
        w == <<v[1] \div k, v[2] \div k, v[3] \div k>>
        len == Length(w)
    IN  IF len = 0 THEN Zero3 ELSE VScale(w, Scale, len)


-----------------------------------------------------------------------------
(* State. *)

VARIABLES
    particles,          \* std::vector<Particle>
    springs,            \* std::vector<Spring>
    spheres,            \* std::vector<CollisionSphere>
    gravity, damping, windStrength, tearThreshold,
    elapsedTime,        \* remainder of the fixed-step accumulator, in ticks
    windDirection,
    gridWidth, gridHeight, clothWidth, clothHeight,
    objectMoveTime, windVariationTime,
    vertices, indices,  \* the derived mesh, as the flat buffers exported
    startPosInit, startPos, angle, goingForward,
                        \* function-local statics of updateObjectMovement
    gen,                \* function-local static generator of applyWindForce
    call,               \* the public operation that produced this state
    nOps,               \* operations called since construction
    mode,               \* the preset setMode applied last, NONE before any
    app                 \* the Application that owns the ClothSystem

cloth == <<particles, springs, spheres, vertices, indices>>

params == <<gravity, damping, windStrength, tearThreshold, windDirection>>

grid == <<gridWidth, gridHeight, clothWidth, clothHeight>>

clocks == <<elapsedTime, objectMoveTime, windVariationTime>>

statics == <<startPosInit, startPos, angle, goingForward, gen>>

\* Everything the program holds (all but the model's record of the caller).
sim == <<cloth, params, grid, clocks, statics>>

vars == <<sim, call, nOps, mode, app>>

\* Application::Application and the in-class defaults of its fields; started
\* records that initializePhysics has run.
NewApplication ==
    [started |-> FALSE, currentMode |-> "TEAR", paused |-> FALSE,
     leftMousePressed |-> FALSE]

\* A fault for NewParticle: oldPosition is left at the origin.
NewParticleOldAtOrigin(pos) ==
    [position |-> pos, oldPosition |-> Zero3, velocity |-> Zero3,
     force |-> Zero3, mass |-> Scale, pinned |-> FALSE, active |-> TRUE]

\* Particle::Particle(pos): the in-class defaults and the constructor's list.
NewParticle(pos) ==
    [position |-> pos, oldPosition |-> pos, velocity |-> Zero3,
     force |-> Zero3, mass |-> Scale, pinned |-> FALSE, active |-> TRUE]

\* Spring::Spring(p1, p2, length, k, t), k in thousandths.
NewSpring(p1, p2, length, k, t) ==
    [particle1 |-> p1, particle2 |-> p2, restLength |-> length,
     stiffness |-> k, type |-> t, active |-> TRUE]

\* CollisionSphere::CollisionSphere(c, r)
NewSphere(c, r) == [center |-> c, radius |-> r]

\* A fault for Cleared: the container is not cleared.
Kept(v) == v

\* std::vector::clear
Cleared(v) == <<>>

\* The std::vector holding the values f[1], ..., f[n] of a function on 1..n.
Vector(f) == SubSeq(f, 1, Len(f))

\* Element i (0-based) of a std::vector.
At(v, i) == v[i + 1]

-----------------------------------------------------------------------------
(* Grid Topology Builder: ClothSystem::createClothGrid. *)

\* Lattice position of grid cell (x, y).
GridPosition(x, y, W, H, cw, ch) ==
    Vec3(RDiv(x * cw, W - 1) - RDiv(cw, 2), RDiv(y * ch, H - 1), 0)

\* The first loop: one particle per cell, row-major, top row pinned.
GridParticles(W, H, cw, ch) ==
    [i \in 1..(W * H) |->
        LET x == (i - 1) % W
            y == (i - 1) \div W
        IN  [NewParticle(GridPosition(x, y, W, H, cw, ch))
                EXCEPT !.pinned = (y = H - 1)]]

\* A fault for SpringTo: the rest length is the distance along X only.
SpringToAlongX(ps, current, other, k, t) ==
    NewSpring(current, other,
              Abs(At(ps, other).position[1] - At(ps, current).position[1]), k, t)

\* The spring from cell `current` to cell `other`, rest length as built.
SpringTo(ps, current, other, k, t) ==
    NewSpring(current, other,
              Length(VSub(At(ps, other).position, At(ps, current).position)),
              k, t)

\* The springs the second loop emplaces for cell (x, y), in its order.
CellSprings(ps, x, y, W, H) ==
    LET current == y * W + x
    IN  (IF x < W - 1
            THEN <<SpringTo(ps, current, y * W + (x + 1), 700, "STRUCTURAL")>>
            ELSE <<>>)
     \o (IF y < H - 1
            THEN <<SpringTo(ps, current, (y + 1) * W + x, 700, "STRUCTURAL")>>
            ELSE <<>>)
     \o (IF x < W - 1 /\ y < H - 1
            THEN <<SpringTo(ps, current, (y + 1) * W + (x + 1), 300, "SHEAR")>>
            ELSE <<>>)
     \o (IF x > 0 /\ y < H - 1
            THEN <<SpringTo(ps, current, (y + 1) * W + (x - 1), 300, "SHEAR")>>
            ELSE <<>>)
     \o (IF x < W - 2
            THEN <<SpringTo(ps, current, y * W + (x + 2), 150, "BEND")>>
            ELSE <<>>)
     \o (IF y < H - 2
            THEN <<SpringTo(ps, current, (y + 2) * W + x, 150, "BEND")>>
            ELSE <<>>)

RECURSIVE GridSpringsFrom(_, _, _, _)
GridSpringsFrom(ps, g, W, H) ==
    IF g >= W * H THEN <<>>
    ELSE CellSprings(ps, g % W, g \div W, W, H) \o GridSpringsFrom(ps, g + 1, W, H)

\* A fault for GridSprings: the second loop starts at the second cell.
GridSpringsFromSecond(ps, W, H) == GridSpringsFrom(ps, 1, W, H)

\* The second loop: all springs, cells in row-major order.
GridSprings(ps, W, H) == GridSpringsFrom(ps, 0, W, H)

-----------------------------------------------------------------------------
(* Mesh Deriver: ClothSystem::calculateNormal and updateVertexData. *)

InGrid(x, y, W, H) == x >= 0 /\ x < W /\ y >= 0 /\ y < H

offsets ==
    << <<1, 0>>, <<-1, 0>>, <<0, 1>>, <<0, -1>>,
       <<1, 1>>, <<-1, -1>>, <<1, -1>>, <<-1, 1>> >>

\* The cross product pair i of offsets contributes, or Zero3 when the pair is
\* not counted (a neighbour off the grid or inactive).
NormalTerm(ps, x, y, W, H, i) ==
    LET x1 == x + offsets[i][1]
        y1 == y + offsets[i][2]
        x2 == x + offsets[i + 1][1]
        y2 == y + offsets[i + 1][2]
        index == y * W + x
        idx1 == y1 * W + x1
        idx2 == y2 * W + x2
    IN  IF InGrid(x1, y1, W, H) /\ InGrid(x2, y2, W, H)
           /\ At(ps, idx1).active /\ At(ps, idx2).active
        THEN <<1, Cross(VSub(At(ps, idx1).position, At(ps, index).position),
                        VSub(At(ps, idx2).position, At(ps, index).position))>>
        ELSE <<0, Zero3>>

RECURSIVE NormalSum(_, _, _, _, _, _)
NormalSum(ps, x, y, W, H, i) ==
    IF i > Len(offsets) - 1 THEN <<0, Zero3>>
    ELSE LET t == NormalTerm(ps, x, y, W, H, i)
             r == NormalSum(ps, x, y, W, H, i + 1)
         IN  <<t[1] + r[1], VAdd(t[2], r[2])>>

calculateNormal(ps, x, y, W, H) ==
    IF ~At(ps, y * W + x).active THEN Vec3(0, 0, Scale)
    ELSE LET s == NormalSum(ps, x, y, W, H, 1)
         IN  IF s[1] > 0 THEN Normalize(s[2]) ELSE Vec3(0, 0, Scale)

\* A fault for GridToVertex: the grid index itself is stored.
GridToVertexUncompacted(ps, g) == IF At(ps, g).active THEN g ELSE -1

\* gridToVertex[g]: position of particle g among the active ones, or -1.
GridToVertex(ps, g) ==
    IF At(ps, g).active
        THEN Cardinality({h \in 0..(g - 1) : At(ps, h).active})
        ELSE -1

\* The eight floats pushed for particle g, nothing if it is inactive.
VertexOf(ps, g, W, H) ==
    LET x == g % W
        y == g \div W
        p == At(ps, g)
        normal == calculateNormal(ps, x, y, W, H)
    IN  IF ~p.active THEN <<>>
        ELSE <<p.position[1], p.position[2], p.position[3],
               normal[1], normal[2], normal[3],
               RDiv(x * Scale, W - 1), RDiv(y * Scale, H - 1)>>

RECURSIVE VerticesFrom(_, _, _, _)
VerticesFrom(ps, g, W, H) ==
    IF g >= W * H THEN <<>>
    ELSE VertexOf(ps, g, W, H) \o VerticesFrom(ps, g + 1, W, H)

\* The six indices pushed for the quad whose top-left cell is (x, y).
QuadIndices(ps, x, y, W) ==
    LET topLeft == y * W + x
        topRight == y * W + (x + 1)
        bottomLeft == (y + 1) * W + x
        bottomRight == (y + 1) * W + (x + 1)
    IN  IF At(ps, topLeft).active /\ At(ps, topRight).active
           /\ At(ps, bottomLeft).active /\ At(ps, bottomRight).active
           /\ GridToVertex(ps, topLeft) # -1 /\ GridToVertex(ps, topRight) # -1
           /\ GridToVertex(ps, bottomLeft) # -1
           /\ GridToVertex(ps, bottomRight) # -1
        THEN <<GridToVertex(ps, topLeft), GridToVertex(ps, bottomLeft),
               GridToVertex(ps, topRight), GridToVertex(ps, topRight),
               GridToVertex(ps, bottomLeft), GridToVertex(ps, bottomRight)>>
        ELSE <<>>

RECURSIVE IndicesFrom(_, _, _, _)
IndicesFrom(ps, q, W, H) ==
    IF W < 2 \/ H < 2 \/ q >= (W - 1) * (H - 1) THEN <<>>
    ELSE QuadIndices(ps, q % (W - 1), q \div (W - 1), W)
            \o IndicesFrom(ps, q + 1, W, H)

\* updateVertexData: both buffers cleared, then rebuilt from the particles.
MeshVertices(old, ps, W, H) == Cleared(old) \o VerticesFrom(ps, 0, W, H)

MeshIndices(old, ps, W, H) == Cleared(old) \o IndicesFrom(ps, 0, W, H)

-----------------------------------------------------------------------------
(* Force & Integration Stage. *)

\* const float fixedTimeStep = 1.0f / 60.0f, in ticks.
fixedTimeStep == TimeScale \div 60

\* One step of the static generator `gen` (a linear congruential stand-in for
\* std::mt19937: deterministic once seeded).
NextGen(g) == (g * 75 + 74) % 65537

\* static std::mt19937 gen(rd()): constructed from the random device's value
\* `seed` the first time applyWindForce runs, kept from then on.
Seeded(g, seed) == IF g.init THEN g ELSE [init |-> TRUE, state |-> seed]

\* The value turbulence(gen) returns from generator state g: in [-1, 1].
Turbulence(g) == (g % (2 * Scale + 1)) - Scale

\* glm::vec3 turbulenceVec(turbulence(gen) * 0.3f, ... * 0.2f, ... * 0.3f):
\* three draws from generator state g0 (taken here in the order written; C++
\* leaves the order of the three calls to the compiler).
TurbulenceVec(g0) ==
    Vec3(Mul(Turbulence(NextGen(g0)), 300),
         Mul(Turbulence(NextGen(NextGen(g0))), 200),
         Mul(Turbulence(NextGen(NextGen(NextGen(g0)))), 300))

\* wind = windDirection * windStrength + turbulenceVec * windStrength
Wind(g0, wDir, wStr) ==
    VAdd(VScale(wDir, wStr, Scale), VScale(TurbulenceVec(g0), wStr, Scale))

\* normalizedVelocity * velocityMagnitude * velocityMagnitude
\*     * dragCoefficient * particle.mass, or nothing at magnitude 0.
Drag(relativeVelocity, velocityMagnitude, mass) ==
    IF velocityMagnitude > 0
        THEN VScale(VScale(VScale(VScale(VScale(relativeVelocity, Scale,
                                                velocityMagnitude),
                                         velocityMagnitude, Scale),
                                  velocityMagnitude, Scale),
                           100, Scale),
                    mass, Scale)
        ELSE Zero3

\* applyWindForce: the force added to `particle`, drawing from state g0.
WindForce(particle, g0, wDir, wStr) ==
    Drag(VSub(Wind(g0, wDir, wStr), particle.velocity),
         Length(VSub(Wind(g0, wDir, wStr), particle.velocity)), particle.mass)

\* applyForces' loop body with wind, generator gs: a = <<particles, gen>>.
Blown(a, i, gs, grav, wDir, wStr) ==
    <<[a[1] EXCEPT ![i].force =
            VAdd(Vec3(0, Mul(grav, a[1][i].mass), 0),
                 WindForce(a[1][i], gs.state, wDir, wStr))],
      [gs EXCEPT !.state = NextGen(NextGen(NextGen(@)))]>>

\* A fault for ForceOn: `if (windStrength > 0.0f)` is missing.
ForceOnAlwaysBlown(a, i, seed, grav, wDir, wStr) ==
    IF ~a[1][i].active \/ a[1][i].pinned THEN a
    ELSE Blown(a, i, Seeded(a[2], seed), grav, wDir, wStr)

\* applyForces' loop body for particle i.
ForceOn(a, i, seed, grav, wDir, wStr) ==
    IF ~a[1][i].active \/ a[1][i].pinned THEN a
    ELSE IF wStr > 0 THEN Blown(a, i, Seeded(a[2], seed), grav, wDir, wStr)
    ELSE <<[a[1] EXCEPT ![i].force = Vec3(0, Mul(grav, a[1][i].mass), 0)], a[2]>>

RECURSIVE ApplyForcesFrom(_, _, _, _, _, _)
ApplyForcesFrom(a, i, seed, grav, wDir, wStr) ==
    IF i > Len(a[1]) THEN a
    ELSE ApplyForcesFrom(ForceOn(a, i, seed, grav, wDir, wStr), i + 1, seed,
                         grav, wDir, wStr)

\* applyForces: <<particles, gen>> after the loop.
applyForces(ps, g, seed, grav, wDir, wStr) ==
    ApplyForcesFrom(<<ps, g>>, 1, seed, grav, wDir, wStr)

\* A fault for IntegrateParticle: `|| !particle.active` is missing.
IntegrateParticleInactiveToo(particle, deltaTime, damp) ==
    IF particle.pinned THEN particle
    ELSE [particle EXCEPT
            !.oldPosition = particle.position,
            !.position =
                VAdd(VAdd(particle.position,
                          VScale(VSub(particle.position, particle.oldPosition),
                                 damp, Scale)),
                     VScale(VScale(VScale(particle.force, Scale, particle.mass),
                                   deltaTime, TimeScale),
                            deltaTime, TimeScale))]

\* integrateVerlet on one particle.
IntegrateParticle(particle, deltaTime, damp) ==
    IF particle.pinned \/ ~particle.active THEN particle
    ELSE [particle EXCEPT
            !.oldPosition = particle.position,
            !.position =
                VAdd(VAdd(particle.position,
                          VScale(VSub(particle.position, particle.oldPosition),
                                 damp, Scale)),
                     VScale(VScale(VScale(particle.force, Scale, particle.mass),
                                   deltaTime, TimeScale),
                            deltaTime, TimeScale))]

integrateVerlet(ps, deltaTime, damp) ==
    Vector([i \in 1..Len(ps) |-> IntegrateParticle(ps[i], deltaTime, damp)])

-----------------------------------------------------------------------------
(* Constraint Solver.  The solver's state is the pair c = <<particles,     *)
(* springs>>.                                                              *)

\* distance < 1e-6f: below the model's resolution only the distance 0 is.
Degenerate(distance) == distance = 0

\* A fault for checkTearing: the comparison is >= instead of >.
checkTearingAtThreshold(ps, spring, thr) ==
    Length(VSub(At(ps, spring.particle2).position,
                At(ps, spring.particle1).position)) * Scale
        >= spring.restLength * thr

\* checkTearing
checkTearing(ps, spring, thr) ==
    Length(VSub(At(ps, spring.particle2).position,
                At(ps, spring.particle1).position)) * Scale
        > spring.restLength * thr

\* translate = delta * difference * spring.stiffness
Translate(delta, distance, spring) ==
    VScale(VScale(delta, RDiv((spring.restLength - distance) * Scale, distance), Scale),
           spring.stiffness, Scale)

\* The two conditional position updates that end the loop body.
Correct(c, spring, p1, p2, translate) ==
    <<[c[1] EXCEPT
         ![spring.particle1 + 1].position =
             IF p1.pinned THEN @
             ELSE VSub(@, VScale(translate,
                                 RDiv(p2.mass * Scale, p1.mass + p2.mass), Scale)),
         ![spring.particle2 + 1].position =
             IF p2.pinned THEN @
             ELSE VAdd(@, VScale(translate,
                                 RDiv(p1.mass * Scale, p1.mass + p2.mass), Scale))],
      c[2]>>

\* The loop body from the distance test on.
RelaxAt(c, k, spring, p1, p2, delta, distance, thr) ==
    IF Degenerate(distance) THEN c
    ELSE IF checkTearing(c[1], spring, thr)
        THEN <<c[1], [c[2] EXCEPT ![k].active = FALSE]>>
    ELSE Correct(c, spring, p1, p2, Translate(delta, distance, spring))

\* The loop body from the endpoints' test on.
RelaxBetween(c, k, spring, p1, p2, thr) ==
    IF ~p1.active \/ ~p2.active THEN c
    ELSE RelaxAt(c, k, spring, p1, p2, VSub(p2.position, p1.position),
                 Length(VSub(p2.position, p1.position)), thr)

\* A fault for RelaxSpring: an inactive spring is not skipped but enabled.
RelaxSpringReviving(c, k, thr) ==
    RelaxBetween(<<c[1], [c[2] EXCEPT ![k].active = TRUE]>>, k, c[2][k],
                 At(c[1], c[2][k].particle1), At(c[1], c[2][k].particle2), thr)

\* The body of satisfyConstraints' loop for spring k.
RelaxSpring(c, k, thr) ==
    IF ~c[2][k].active THEN c
    ELSE RelaxBetween(c, k, c[2][k], At(c[1], c[2][k].particle1),
                      At(c[1], c[2][k].particle2), thr)

RECURSIVE SatisfyFrom(_, _, _)
SatisfyFrom(c, k, thr) ==
    IF k > Len(c[2]) THEN c
    ELSE SatisfyFrom(RelaxSpring(c, k, thr), k + 1, thr)

\* satisfyConstraints: one pass over the springs, in container order.
satisfyConstraints(c, thr) == SatisfyFrom(c, 1, thr)

-----------------------------------------------------------------------------
(* Collision Stage. *)

\* The velocity handleCollisions leaves after a sphere contact.
Bounced(velocity, vNormal) ==
    VSub(VScale(VSub(velocity, vNormal), 900, Scale), VScale(vNormal, 200, Scale))

\* The sphere branch once the particle is moved to `position` on the surface.
Rebound(particle, position, normal) ==
    [particle EXCEPT
        !.position = position,
        !.oldPosition =
            VSub(position,
                 Bounced(VSub(position, particle.oldPosition),
                         VScale(normal,
                                RDiv(Dot2(VSub(position, particle.oldPosition), normal),
                                     Scale),
                                Scale)))]

\* The sphere branch given the contact normal.
Project(particle, sphere, normal) ==
    Rebound(particle, VAdd(sphere.center, VScale(normal, sphere.radius, Scale)), normal)

\* The sphere test given diff and distance.
CollideAt(particle, sphere, diff, distance) ==
    IF distance < sphere.radius
        THEN Project(particle, sphere,
                     IF distance > 0 THEN VScale(diff, Scale, distance)
                                     ELSE Vec3(0, Scale, 0))
        ELSE particle

\* The sphere branch of handleCollisions for one particle and one sphere.
CollideSphere(particle, sphere) ==
    CollideAt(particle, sphere, VSub(particle.position, sphere.center),
              Length(VSub(particle.position, sphere.center)))

RECURSIVE CollideSpheresFrom(_, _, _)
CollideSpheresFrom(particle, sph, j) ==
    IF j > Len(sph) THEN particle
    ELSE CollideSpheresFrom(CollideSphere(particle, sph[j]), sph, j + 1)

\* The ground branch once position.y is set to the plane's height.
Grounded(particle, position) ==
    [particle EXCEPT
        !.position = position,
        !.oldPosition = VSub(position,
                             VScale(VSub(position, particle.oldPosition), 400, Scale))]

\* A fault for CollideGround: the ground-plane branch is missing.
CollideGroundAbsent(particle) == particle

\* The ground-plane branch of handleCollisions for one particle.
CollideGround(particle) ==
    IF particle.position[2] < -5 * Scale
        THEN Grounded(particle, [particle.position EXCEPT ![2] = -5 * Scale])
        ELSE particle

\* A fault for CollideParticle: the loop's body ends after the spheres.
CollideParticleSpheresOnly(particle, sph) ==
    IF ~particle.active THEN particle
    ELSE CollideSpheresFrom(particle, sph, 1)

\* The body of handleCollisions' loop for one particle.
CollideParticle(particle, sph) ==
    IF ~particle.active THEN particle
    ELSE CollideGround(CollideSpheresFrom(particle, sph, 1))

handleCollisions(ps, sph) ==
    Vector([i \in 1..Len(ps) |-> CollideParticle(ps[i], sph)])

-----------------------------------------------------------------------------
(* Scenario Controller: the two secondary animations. *)

\* pi and pi/2 at the model's resolution.
PiMilli == 3142
HalfPiMilli == 1571

\* sin on [0, pi] (Bhaskara's rational approximation, exact at 0, pi/2, pi).
SinHalfTurn(x) ==
    LET p == x * (PiMilli - x)
    IN  RDiv(16 * p, (5 * PiMilli * PiMilli - 4 * p) \div Scale)

\* sin(a), a >= 0 in thousandths of a radian.
Sin(a) ==
    LET r == a % (2 * PiMilli)
    IN  IF r <= PiMilli THEN SinHalfTurn(r) ELSE -SinHalfTurn(r - PiMilli)

\* cos(a)
Cos(a) == Sin(a + HalfPiMilli)

\* float objectMoveSpeed = 0.8f, float objectMoveRange = 8.0f (never assigned).
objectMoveSpeed == 800
objectMoveRange == 8000

\* updateObjectMovement past its early return: the values it leaves in
\* spheres, objectMoveTime and its statics startPos, angle, goingForward.
ObjectMovement(sph, deltaTime, omt, sInit, sPos, ang, fwd) ==
    LET start == IF sInit THEN sPos ELSE sph[1].center
        moveTime == omt + RDiv(deltaTime * objectMoveSpeed, TimeScale)
        radius == objectMoveRange \div 2
        zForward == start[3] - moveTime
        reached == zForward <= start[3] - objectMoveRange
        ang1 == ang + RDiv(deltaTime * objectMoveSpeed, TimeScale)
        x == start[1] + Mul(radius, Sin(ang1))
        z == (start[3] - objectMoveRange) + Mul(radius, Scale - Cos(ang1))
        done == ang1 >= PiMilli
    IN  IF fwd
        THEN [spheres |-> [sph EXCEPT ![1].center[3] = zForward],
              objectMoveTime |-> moveTime, startPos |-> start,
              angle |-> IF reached THEN 0 ELSE ang,
              goingForward |-> ~reached]
        ELSE [spheres |-> [sph EXCEPT ![1].center =
                                IF done THEN start ELSE Vec3(x, start[2], z)],
              objectMoveTime |-> IF done THEN 0 ELSE moveTime,
              startPos |-> start, angle |-> ang1, goingForward |-> done]

\* A fault for WindVariation: the clock advances twice for one frame.
WindVariationTwice(deltaTime, wvt) ==
    <<wvt + 2 * RDiv(deltaTime * 3 * Scale, TimeScale), Normalize(Vec3(0, 0, -Scale))>>

\* A fault for WindVariation: the variations are applied to the direction
\* in use instead of the base direction.
WindVariationOfCurrent(deltaTime, wvt) ==
    LET t == wvt + RDiv(deltaTime * 3 * Scale, TimeScale)
        variationX == Mul(Sin(RDiv(t * 15, 10)), 300)
        variationY == Mul(Mul(Sin(RDiv(t * 23, 10)), 300), 500)
        variationZ == Mul(Mul(Cos(RDiv(t * 18, 10)), 300), 300)
        variedWind == VAdd(windDirection, Vec3(variationX, variationY, variationZ))
    IN  <<t, Normalize(variedWind)>>

\* updateWindVariation past its early return: <<windVariationTime, windDirection>>.
WindVariation(deltaTime, wvt) ==
    LET t == wvt + RDiv(deltaTime * 3 * Scale, TimeScale)
        variationX == Mul(Sin(RDiv(t * 15, 10)), 300)
        variationY == Mul(Mul(Sin(RDiv(t * 23, 10)), 300), 500)
        variationZ == Mul(Mul(Cos(RDiv(t * 18, 10)), 300), 300)
        baseWind == Normalize(Vec3(0, 0, -Scale))
        variedWind == VAdd(baseWind, Vec3(variationX, variationY, variationZ))
    IN  <<t, Normalize(variedWind)>>

-----------------------------------------------------------------------------
(* ClothSystem::update. *)

\* The stages of one pass of the while loop's body, each on the triple
\* t = <<particles, springs, gen>>.
Integrated(a, ss, damp) == <<integrateVerlet(a[1], fixedTimeStep, damp), ss, a[2]>>

WithGen(c, g) == <<c[1], c[2], g>>

\* for (int i = 0; i < 3; ++i) satisfyConstraints();
Relaxed(t, thr) ==
    WithGen(satisfyConstraints(
                satisfyConstraints(
                    satisfyConstraints(<<t[1], t[2]>>, thr), thr), thr), t[3])

Collided(t, sph) == <<handleCollisions(t[1], sph), t[2], t[3]>>

\* elapsedTime is a float: 24 significant bits.  The floats in
\* [2^20, 2^21) seconds are 2^-3 s apart, Ulp20 ticks; those in
\* [2^e, 2^(e+1)) are Ulp20 / 2^(20-e) ticks apart.
Ulp20 == TimeScale \div 8

\* Start, in ticks, of the binade [2^19, 2^20) seconds.
Binade19 == 524288 * TimeScale

\* 2^(20-e) for a time t >= 0 in [2^e, 2^(e+1)) seconds, found from binade
\* `lo` downwards; 0 below 2^12 seconds, where the floats are less than
\* one tick apart and the ticks stand for them exactly.
RECURSIVE GrainFrom(_, _, _)
GrainFrom(t, lo, m) ==
    IF t >= lo THEN m
    ELSE IF m >= 256 THEN 0
    ELSE GrainFrom(t, lo \div 2, 2 * m)

Grain(t) == GrainFrom(t, Binade19, 2)

\* The float nearest to a time t >= 0, in ticks: the nearest multiple of
\* Ulp20 / Grain(t).
Float(t) ==
    IF Grain(t) = 0 THEN t
    ELSE (t \div Ulp20) * Ulp20
            + RDiv(RDiv((t % Ulp20) * Grain(t), Ulp20) * Ulp20, Grain(t))

\* elapsedTime -= fixedTimeStep leaves elapsedTime as it was: the while
\* loop's condition stays true for ever.
Stalls(t) == t >= fixedTimeStep /\ Float(t - fixedTimeStep) = t

\* The loop's state after a pass that left t: one fixed step drained.
Drained(t, st) ==
    [particles |-> t[1], springs |-> t[2], gen |-> t[3],
     elapsedTime |-> Float(st.elapsedTime - fixedTimeStep), steps |-> st.steps + 1]

\* A fault for SubStep: handleCollisions() is called before the three
\* constraint passes.
SubStepCollidingFirst(st, seed, sph, grav, damp, wDir, wStr, thr) ==
    Drained(Relaxed(Collided(Integrated(applyForces(st.particles, st.gen, seed,
                                                    grav, wDir, wStr),
                                        st.springs, damp), sph), thr), st)

\* One pass of the while loop's body, on the loop's state
\* st = [particles, springs, gen, elapsedTime, steps].
SubStep(st, seed, sph, grav, damp, wDir, wStr, thr) ==
    Drained(Collided(Relaxed(Integrated(applyForces(st.particles, st.gen, seed,
                                                    grav, wDir, wStr),
                                        st.springs, damp), thr), sph), st)

\* while (elapsedTime >= fixedTimeStep) { ... }: the state when it exits.
RECURSIVE SubSteps(_, _, _, _, _, _, _, _)
SubSteps(st, seed, sph, grav, damp, wDir, wStr, thr) ==
    IF st.elapsedTime >= fixedTimeStep
        THEN SubSteps(SubStep(st, seed, sph, grav, damp, wDir, wStr, thr), seed,
                      sph, grav, damp, wDir, wStr, thr)
        ELSE st

-----------------------------------------------------------------------------
(* Inputs of the exploration. *)

\* Frame times passed to update, in ticks: the reference caller's clamp
\* 0.016 s (below one fixed step) and two fixed steps.
DeltaTimes == {48, 100}

Modes == {"TEAR", "COLLISION", "FLAG"}

\* Pointer positions: 0.05 from the bottom-left lattice point, exactly the
\* tear radius 0.08 from it, and 0.03 from the top-right (pinned) one.
MousePositions == {Vec3(-1950, 0, 0), Vec3(-1920, 0, 0), Vec3(1970, 4000, 0)}

\* Spheres a caller adds: one over the top-left (pinned) lattice point, one
\* over the bottom-left (free) one.
SphereCenters == {Vec3(-2000, 4000, 300), Vec3(-2000, 0, 300)}
SphereRadii == {800}

TearThresholds == {1000}

\* Values std::random_device hands the generator.
Seeds == {1, 40000}

\* The record of a call: the operation and its arguments (unused ones blank).
\* `after` is the call that came before it.
Call(op, dt, m, pos, flag, r, n) ==
    [op |-> op, dt |-> dt, mode |-> m, pos |-> pos, tearing |-> flag,
     radius |-> r, steps |-> n,
     after |-> [op |-> call.op, mode |-> call.mode, tearing |-> call.tearing,
                steps |-> call.steps]]

-----------------------------------------------------------------------------
(* Construction and the public operations. *)

\* ClothSystem::ClothSystem(width, height, w, h), with the in-class member
\* initialisers; cloth extents as the reference caller constructs it.  The
\* constructor stores its arguments and calls createClothGrid(): it tests
\* neither dimension.
Constructed(W, H) ==
        /\ gridWidth = W
        /\ gridHeight = H
        /\ clothWidth = 4 * Scale
        /\ clothHeight = 4 * Scale
        /\ particles = Cleared(<<>>) \o GridParticles(W, H, 4 * Scale, 4 * Scale)
        /\ springs = Cleared(<<>>) \o GridSprings(GridParticles(W, H, 4 * Scale, 4 * Scale), W, H)
        /\ vertices = MeshVertices(<<>>, GridParticles(W, H, 4 * Scale, 4 * Scale), W, H)
        /\ indices = MeshIndices(<<>>, GridParticles(W, H, 4 * Scale, 4 * Scale), W, H)
        /\ spheres = <<>>
        /\ gravity = -9810
        /\ damping = 990
        /\ windStrength = 0
        /\ tearThreshold = 2000
        /\ elapsedTime = 0
        /\ windDirection = Vec3(1000, 0, 500)
        /\ objectMoveTime = 4000
        /\ windVariationTime = 0
        /\ startPosInit = FALSE
        /\ startPos = Zero3
        /\ angle = 0
        /\ goingForward = TRUE
        /\ gen = [init |-> FALSE, state |-> 0]
        /\ call = [op |-> "construct", dt |-> 0, mode |-> "NONE", pos |-> Zero3,
                   tearing |-> FALSE, radius |-> 0, steps |-> 0,
                   after |-> [op |-> "none", mode |-> "NONE", tearing |-> FALSE,
                              steps |-> 0]]
        /\ nOps = 0
        /\ mode = "NONE"
        /\ app = NewApplication

\* The state after construction, for the lattices the exploration covers.
Init == \E W \in 2..MaxGrid, H \in 2..MaxGrid : Constructed(W, H)

\* createClothGrid as called by reset(): the four containers it leaves.
\* `pins` are the grid indices the caller pins afterwards (setMode).
Rebuild(pins) ==
    LET ps0 == Cleared(particles)
               \o GridParticles(gridWidth, gridHeight, clothWidth, clothHeight)
        ss0 == Cleared(springs) \o GridSprings(ps0, gridWidth, gridHeight)
    IN  /\ particles' = Vector([i \in 1..Len(ps0) |->
                            IF (i - 1) \in pins THEN [ps0[i] EXCEPT !.pinned = TRUE]
                                                ELSE ps0[i]])
        /\ springs' = ss0
        /\ vertices' = MeshVertices(vertices, ps0, gridWidth, gridHeight)
        /\ indices' = MeshIndices(indices, ps0, gridWidth, gridHeight)

\* setMode's loops "pin top side" (TEAR, FLAG).
PinTopRow == {(gridHeight - 1) * gridWidth + x : x \in 0..(gridWidth - 1)}

\* setMode's two assignments "pin top corners" (COLLISION).
PinTopCorners ==
    {(gridHeight - 1) * gridWidth, (gridHeight - 1) * gridWidth + (gridWidth - 1)}

\* A fault for Reset: the three clocks are set back to zero as well.
ResetClearingClocks ==
    /\ Rebuild({})
    /\ elapsedTime' = 0 /\ objectMoveTime' = 0 /\ windVariationTime' = 0
    /\ UNCHANGED <<spheres, params, grid, statics>>
    /\ call' = Call("reset", 0, "NONE", Zero3, FALSE, 0, 0)
    /\ nOps' = nOps + 1
    /\ UNCHANGED mode

\* ClothSystem::reset
Reset ==
    /\ Rebuild({})
    /\ UNCHANGED <<spheres, params, grid, clocks, statics>>
    /\ call' = Call("reset", 0, "NONE", Zero3, FALSE, 0, 0)
    /\ nOps' = nOps + 1
    /\ UNCHANGED mode

\* A fault for PresetSpheres: clearCollisionObjects() is not called.
PresetSpheresKept(m, sph) ==
    IF m = "COLLISION"
        THEN Append(sph, NewSphere(Vec3(0, 1000, 6000), 800))
        ELSE sph

\* The sphere list setMode(m) leaves: clearCollisionObjects(), then for
\* COLLISION addSphere(glm::vec3(0.0f, 1.0f, 6.0f), 0.8f).
PresetSpheres(m, sph) ==
    IF m = "COLLISION"
        THEN Append(Cleared(sph), NewSphere(Vec3(0, 1000, 6000), 800))
        ELSE Cleared(sph)

\* ClothSystem::setMode
SetMode(m) ==
    /\ Rebuild(IF m = "COLLISION" THEN PinTopCorners ELSE PinTopRow)
    /\ spheres' = PresetSpheres(m, spheres)
    /\ windStrength' = (IF m = "FLAG" THEN 6000 ELSE 0)
    /\ windDirection' = (IF m = "FLAG" THEN Normalize(Vec3(0, 0, -Scale))
                                       ELSE windDirection)
    /\ UNCHANGED <<gravity, damping, tearThreshold, grid, clocks, statics>>
    /\ call' = Call("setMode", 0, m, Zero3, FALSE, 0, 0)
    /\ nOps' = nOps + 1
    /\ mode' = m

\* float tearRadius = 0.08f
tearRadius == 80

\* The particles (0-based) the loop deactivates: the active ones nearer than
\* tearRadius to mousePos.
Torn(ps, mousePos) ==
    {i \in 0..(Len(ps) - 1) :
        /\ At(ps, i).active
        /\ Length(VSub(At(ps, i).position, mousePos)) < tearRadius}

\* A fault for TornSprings: the inner loop tests only spring.particle2.
TornSpringsBySecond(ss, torn) ==
    Vector([k \in 1..Len(ss) |->
                IF ss[k].particle2 \in torn THEN [ss[k] EXCEPT !.active = FALSE]
                                            ELSE ss[k]])

\* A fault for TornSprings: the inner loop tests only spring.particle1.
TornSpringsByFirst(ss, torn) ==
    Vector([k \in 1..Len(ss) |->
                IF ss[k].particle1 \in torn THEN [ss[k] EXCEPT !.active = FALSE]
                                            ELSE ss[k]])

\* The springs after the inner loops "deactivate connected springs".
TornSprings(ss, torn) ==
    Vector([k \in 1..Len(ss) |->
                IF ss[k].particle1 \in torn \/ ss[k].particle2 \in torn
                    THEN [ss[k] EXCEPT !.active = FALSE]
                    ELSE ss[k]])

\* A fault for TornParticles: the particles in reach are erased from the
\* vector.
TornParticlesErased(ps, torn) ==
    SelectSeq(Vector([i \in 1..Len(ps) |->
                        IF (i - 1) \in torn THEN [ps[i] EXCEPT !.active = FALSE]
                                            ELSE ps[i]]),
              LAMBDA p : p.active)

\* The particles after the loop.
TornParticles(ps, torn) ==
    Vector([i \in 1..Len(ps) |->
                IF (i - 1) \in torn THEN [ps[i] EXCEPT !.active = FALSE]
                                    ELSE ps[i]])

\* A fault for HandleMouseInteraction: `if (!tearing) return;` is missing.
HandleMouseInteractionAlways(mousePos, tearing) ==
    /\ particles' = TornParticles(particles, Torn(particles, mousePos))
    /\ springs' = TornSprings(springs, Torn(particles, mousePos))
    /\ UNCHANGED <<spheres, vertices, indices, params, grid, clocks, statics>>
    /\ call' = Call("handleMouseInteraction", 0, "NONE", mousePos, tearing, 0, 0)
    /\ nOps' = nOps + 1
    /\ UNCHANGED mode

\* ClothSystem::handleMouseInteraction
HandleMouseInteraction(mousePos, tearing) ==
    /\ IF ~tearing
          THEN UNCHANGED <<particles, springs>>
          ELSE /\ particles' = TornParticles(particles, Torn(particles, mousePos))
               /\ springs' = TornSprings(springs, Torn(particles, mousePos))
    /\ UNCHANGED <<spheres, vertices, indices, params, grid, clocks, statics>>
    /\ call' = Call("handleMouseInteraction", 0, "NONE", mousePos, tearing, 0, 0)
    /\ nOps' = nOps + 1
    /\ UNCHANGED mode

\* ClothSystem::addSphere
AddSphere(center, radius) ==
    /\ spheres' = Append(spheres, NewSphere(center, radius))
    /\ UNCHANGED <<particles, springs, vertices, indices, params, grid, clocks, statics>>
    /\ call' = Call("addSphere", 0, "NONE", center, FALSE, radius, 0)
    /\ nOps' = nOps + 1
    /\ UNCHANGED mode

\* ClothSystem::clearCollisionObjects
ClearCollisionObjects ==
    /\ spheres' = Cleared(spheres)
    /\ UNCHANGED <<particles, springs, vertices, indices, params, grid, clocks, statics>>
    /\ call' = Call("clearCollisionObjects", 0, "NONE", Zero3, FALSE, 0, 0)
    /\ nOps' = nOps + 1
    /\ UNCHANGED mode

\* A fault for SetGravity: the value given is not stored.
SetGravityDropped(g) ==
    /\ UNCHANGED sim
    /\ call' = Call("setGravity", 0, "NONE", Zero3, FALSE, g, 0)
    /\ nOps' = nOps + 1
    /\ UNCHANGED mode

\* ClothSystem::setGravity
SetGravity(g) ==
    /\ gravity' = g
    /\ UNCHANGED <<cloth, damping, windStrength, tearThreshold, windDirection, grid,
                   clocks, statics>>
    /\ call' = Call("setGravity", 0, "NONE", Zero3, FALSE, g, 0)
    /\ nOps' = nOps + 1
    /\ UNCHANGED mode

\* ClothSystem::setDamping
SetDamping(d) ==
    /\ damping' = d
    /\ UNCHANGED <<cloth, gravity, windStrength, tearThreshold, windDirection, grid,
                   clocks, statics>>
    /\ call' = Call("setDamping", 0, "NONE", Zero3, FALSE, d, 0)
    /\ nOps' = nOps + 1
    /\ UNCHANGED mode

\* ClothSystem::setWindStrength
SetWindStrength(w) ==
    /\ windStrength' = w
    /\ UNCHANGED <<cloth, gravity, damping, tearThreshold, windDirection, grid,
                   clocks, statics>>
    /\ call' = Call("setWindStrength", 0, "NONE", Zero3, FALSE, w, 0)
    /\ nOps' = nOps + 1
    /\ UNCHANGED mode

\* ClothSystem::setWindDirection: windDirection = glm::normalize(dir).
SetWindDirection(dir) ==
    /\ windDirection' = Normalize(dir)
    /\ UNCHANGED <<cloth, gravity, damping, windStrength, tearThreshold, grid,
                   clocks, statics>>
    /\ call' = Call("setWindDirection", 0, "NONE", dir, FALSE, 0, 0)
    /\ nOps' = nOps + 1
    /\ UNCHANGED mode

\* ClothSystem::setTearThreshold
SetTearThreshold(t) ==
    /\ tearThreshold' = t
    /\ UNCHANGED <<cloth, gravity, damping, windStrength, windDirection, grid,
                   clocks, statics>>
    /\ call' = Call("setTearThreshold", 0, "NONE", Zero3, FALSE, t, 0)
    /\ nOps' = nOps + 1
    /\ UNCHANGED mode

\* The values std::random_device can give the generator in this call: none is
\* drawn unless the generator is unseeded and the wind branch can run.
SeedChoices == IF gen.init \/ windStrength <= 0 THEN {gen.state} ELSE Seeds

\* update's assignments, given the sub-step loop's result r, the obstacle
\* motion m and the wind variation w.
UpdateTo(deltaTime, r, m, w) ==
    /\ particles' = r.particles
    /\ springs' = r.springs
    /\ gen' = r.gen
    /\ elapsedTime' = r.elapsedTime
    /\ IF spheres = <<>>
          THEN UNCHANGED <<spheres, objectMoveTime, startPosInit, startPos,
                           angle, goingForward>>
          ELSE /\ spheres' = m.spheres
               /\ objectMoveTime' = m.objectMoveTime
               /\ startPosInit' = TRUE
               /\ startPos' = m.startPos
               /\ angle' = m.angle
               /\ goingForward' = m.goingForward
    /\ IF windStrength < 1000
          THEN UNCHANGED <<windVariationTime, windDirection>>
          ELSE /\ windVariationTime' = w[1]
               /\ windDirection' = w[2]
    /\ vertices' = MeshVertices(vertices, r.particles, gridWidth, gridHeight)
    /\ indices' = MeshIndices(indices, r.particles, gridWidth, gridHeight)
    /\ call' = Call("update", deltaTime, "NONE", Zero3, FALSE, 0, r.steps)

\* update when the while loop exits.
UpdateReturns(deltaTime) ==
    /\ \E seed \in SeedChoices :
        UpdateTo(deltaTime,
                 SubSteps([particles |-> particles, springs |-> springs, gen |-> gen,
                           elapsedTime |-> Float(elapsedTime + deltaTime),
                           steps |-> 0],
                          seed, spheres, gravity, damping, windDirection,
                          windStrength, tearThreshold),
                 ObjectMovement(spheres, deltaTime, objectMoveTime, startPosInit,
                                startPos, angle, goingForward),
                 WindVariation(deltaTime, windVariationTime))
    /\ UNCHANGED <<gravity, damping, windStrength, tearThreshold, grid>>

\* update when the while loop never exits: the call does not return, and
\* no statement after the loop runs.  The loop's passes go on changing
\* particles and springs without end, so the call has no final value for
\* them; only elapsedTime, which no pass changes any more, is recorded.
UpdateStalls(deltaTime) ==
    /\ elapsedTime' = Float(elapsedTime + deltaTime)
    /\ UNCHANGED <<cloth, params, grid, objectMoveTime, windVariationTime, statics>>
    /\ call' = Call("update stalled", deltaTime, "NONE", Zero3, FALSE, 0, 0)

\* ClothSystem::update
Update(deltaTime) ==
    /\ IF Stalls(Float(elapsedTime + deltaTime))
          THEN UpdateStalls(deltaTime)
          ELSE UpdateReturns(deltaTime)
    /\ nOps' = nOps + 1
    /\ UNCHANGED mode

\* The exploration makes at most n calls, each after the call before it
\* has returned.
More(n) == nOps < n /\ call.op # "update stalled"

\* A call made on the ClothSystem directly, with no Application acting.
Direct(n) == More(n) /\ UNCHANGED app

Next ==
    \/ \E dt \in DeltaTimes : Direct(MaxOps) /\ Update(dt)
    \/ \E m \in Modes : Direct(MaxOps) /\ SetMode(m)
    \/ \E pos \in MousePositions, tearing \in BOOLEAN :
            Direct(MaxOps) /\ HandleMouseInteraction(pos, tearing)
    \/ Direct(MaxOps) /\ Reset
    \/ \E c \in SphereCenters, r \in SphereRadii : Direct(MaxOps) /\ AddSphere(c, r)
    \/ Direct(MaxOps) /\ ClearCollisionObjects
    \/ \E t \in TearThresholds : Direct(MaxOps) /\ SetTearThreshold(t)

Spec == Init /\ [][Next]_vars

-----------------------------------------------------------------------------
(* The obstacle's patrol: longer sessions of the smallest cloth, without
   clearCollisionObjects, so that after setMode(COLLISION) the first sphere
   is the obstacle. *)

\* Number of public operations called in a patrol session.
MaxPatrolOps == 4

\* 0.016 s and two fixed steps.
PatrolDeltaTimes == {48, 100}

PatrolModes == {"COLLISION", "TEAR"}

PatrolCenters == {Vec3(-2000, 0, 300)}

InitPatrol == Init /\ gridWidth = 2 /\ gridHeight = 2

NextPatrol ==
    \/ \E dt \in PatrolDeltaTimes : Direct(MaxPatrolOps) /\ Update(dt)
    \/ \E m \in PatrolModes : Direct(MaxPatrolOps) /\ SetMode(m)
    \/ Direct(MaxPatrolOps) /\ Reset
    \/ \E c \in PatrolCenters, r \in SphereRadii :
            Direct(MaxPatrolOps) /\ AddSphere(c, r)

SpecPatrol == InitPatrol /\ [][NextPatrol]_vars

-----------------------------------------------------------------------------
(* Construction with a grid dimension below 2.  A dimension of 1 makes
   createClothGrid divide 0.0f by float(1 - 1): the lattice coordinate is
   NaN, which this model's arithmetic has no value for.  A dimension of 0
   leaves every loop of createClothGrid and updateVertexData without a
   turn, and all containers empty; these are the lattices explored here.
   setMode is left out: on an empty particles vector its pin loops index
   out of bounds. *)

InitDegenerate ==
    \E W \in 0..MaxGrid, H \in 0..MaxGrid : (W = 0 \/ H = 0) /\ Constructed(W, H)

NextDegenerate ==
    \/ \E dt \in DeltaTimes : Direct(MaxOps) /\ Update(dt)
    \/ \E pos \in MousePositions, tearing \in BOOLEAN :
            Direct(MaxOps) /\ HandleMouseInteraction(pos, tearing)
    \/ Direct(MaxOps) /\ Reset
    \/ \E c \in SphereCenters, r \in SphereRadii : Direct(MaxOps) /\ AddSphere(c, r)
    \/ Direct(MaxOps) /\ ClearCollisionObjects
    \/ \E t \in TearThresholds : Direct(MaxOps) /\ SetTearThreshold(t)

SpecDegenerate == InitDegenerate /\ [][NextDegenerate]_vars

-----------------------------------------------------------------------------
(* The accumulator under long frames: the smallest cloth, with a frame
   time of 600000 s among the inputs.  600000 is a float; as ticks it
   fits the 32 bits of the model's integers. *)

\* 0.016 s, two fixed steps, and 600000 s.
ClockDeltaTimes == {48, 100, 600000 * TimeScale}

NextClock ==
    \/ \E dt \in ClockDeltaTimes : Direct(MaxOps) /\ Update(dt)
    \/ \E pos \in MousePositions : Direct(MaxOps) /\ HandleMouseInteraction(pos, TRUE)
    \/ Direct(MaxOps) /\ Reset
    \/ \E c \in PatrolCenters, r \in SphereRadii : Direct(MaxOps) /\ AddSphere(c, r)

SpecClock == InitPatrol /\ [][NextClock]_vars

-----------------------------------------------------------------------------
(* Tuning: the five parameter setters between updates of the smallest
   cloth.  The values are those a caller may pass, within the sliders'
   ranges and beyond: gravity -20 and 0; damping 0.9; wind strength 0.5
   (below the 1.0 at which the direction starts to vary) and 6; wind
   directions of length 2 and sqrt(2), never the zero vector, whose
   normalisation is NaN; tear thresholds 0.5 and 1.5. *)

NextTuning ==
    \/ \E dt \in DeltaTimes : Direct(MaxOps) /\ Update(dt)
    \/ \E g \in {-20 * Scale, 0} : Direct(MaxOps) /\ SetGravity(g)
    \/ \E d \in {9 * (Scale \div 10)} : Direct(MaxOps) /\ SetDamping(d)
    \/ \E w \in {Scale \div 2, 6 * Scale} : Direct(MaxOps) /\ SetWindStrength(w)
    \/ \E dir \in {Vec3(0, 0, -2 * Scale), Vec3(Scale, Scale, 0)} :
            Direct(MaxOps) /\ SetWindDirection(dir)
    \/ \E t \in {Scale \div 2, 3 * (Scale \div 2)} : Direct(MaxOps) /\ SetTearThreshold(t)
    \/ Direct(MaxOps) /\ Reset

SpecTuning == InitPatrol /\ [][NextTuning]_vars

-----------------------------------------------------------------------------
(* Free fall.  On the smallest cloth the pointer tears the three particles
   other than the bottom-left one, and with them every spring: the
   bottom-left particle, unpinned, is then free and at rest at height 0.
   Updates of one and of two fixed steps follow, under the parameters of
   construction: gravity -9.81, damping 0.99, no wind, no sphere. *)

\* Number of public operations called in a session of free fall.
MaxFallOps == 48

\* The particles other than the bottom-left one are torn.
Alone == \A i \in 2..Len(particles) : ~particles[i].active

NextFall ==
    \/ \E pos \in {Vec3(2 * Scale, 0, 0), Vec3(-2 * Scale, 4 * Scale, 0),
                    Vec3(2 * Scale, 4 * Scale, 0)} :
            /\ Direct(MaxFallOps)
            /\ Torn(particles, pos) # {}
            /\ HandleMouseInteraction(pos, TRUE)
    \/ \E dt \in {fixedTimeStep, 2 * fixedTimeStep} :
            Direct(MaxFallOps) /\ Alone /\ Update(dt)

SpecFall == InitPatrol /\ [][NextFall]_vars

-----------------------------------------------------------------------------
(* The constraint pass as a function.  Its inputs are the smallest cloth
   as built, with the bottom-right particle placed at one of: the
   bottom-left particle's position and the top-right one's (springs of
   length 0), its own lattice position (springs at rest), 8.0 and 8.001
   from the bottom-left one and 8.0 below the top-right one (rest length
   4: at twice the rest length and just above), and two positions off the
   lattice; tear thresholds 1 and 2; the top-left particle and the first
   spring active or not.  Each step is one call of satisfyConstraints. *)

InitRelax ==
    \E pos \in {Vec3(-2 * Scale, 0, 0), Vec3(2 * Scale, 4 * Scale, 0),
                 Vec3(2 * Scale, 0, 0), Vec3(6 * Scale, 0, 0),
                 Vec3(6 * Scale + 1, 0, 0), Vec3(2 * Scale, -4 * Scale, 0),
                 Vec3(0, 0, 0), Vec3(2 * Scale, 0, 3 * Scale)},
       thr \in {Scale, 2 * Scale}, a \in BOOLEAN, b \in BOOLEAN :
        /\ gridWidth = 2
        /\ gridHeight = 2
        /\ clothWidth = 4 * Scale
        /\ clothHeight = 4 * Scale
        /\ particles = [GridParticles(2, 2, 4 * Scale, 4 * Scale)
                            EXCEPT ![2].position = pos, ![3].active = a]
        /\ springs = [GridSprings(GridParticles(2, 2, 4 * Scale, 4 * Scale), 2, 2)
                            EXCEPT ![1].active = b]
        /\ vertices = MeshVertices(<<>>, GridParticles(2, 2, 4 * Scale, 4 * Scale), 2, 2)
        /\ indices = MeshIndices(<<>>, GridParticles(2, 2, 4 * Scale, 4 * Scale), 2, 2)
        /\ spheres = <<>>
        /\ gravity = -9810
        /\ damping = 990
        /\ windStrength = 0
        /\ tearThreshold = thr
        /\ elapsedTime = 0
        /\ windDirection = Vec3(1000, 0, 500)
        /\ objectMoveTime = 4000
        /\ windVariationTime = 0
        /\ startPosInit = FALSE
        /\ startPos = Zero3
        /\ angle = 0
        /\ goingForward = TRUE
        /\ gen = [init |-> FALSE, state |-> 0]
        /\ call = [op |-> "none", dt |-> 0, mode |-> "NONE", pos |-> Zero3,
                   tearing |-> FALSE, radius |-> 0, steps |-> 0,
                   after |-> [op |-> "none", mode |-> "NONE", tearing |-> FALSE,
                              steps |-> 0]]
        /\ nOps = 0
        /\ mode = "NONE"
        /\ app = NewApplication

\* ClothSystem::satisfyConstraints, called once.
SatisfyConstraints ==
    /\ particles' = satisfyConstraints(<<particles, springs>>, tearThreshold)[1]
    /\ springs' = satisfyConstraints(<<particles, springs>>, tearThreshold)[2]
    /\ UNCHANGED <<spheres, vertices, indices, params, grid, clocks, statics>>
    /\ call' = Call("satisfyConstraints", 0, "NONE", Zero3, FALSE, 0, 0)
    /\ nOps' = nOps + 1
    /\ UNCHANGED mode

NextRelax == Direct(MaxOps) /\ SatisfyConstraints

SpecRelax == InitRelax /\ [][NextRelax]_vars

\* The Application (the reference caller): it owns one ClothSystem, drives
\* it once per frame and forwards the keyboard and the pointer to it.  The
\* pointer is given by the world position screenToWorldPos yields for it.

\* The frame deltas glfwGetTime differences take, in ticks: short frames, a
\* frame of exactly the clamp, and hitches far above it.
FrameDeltas == {10, 30, 48, 100, 600000 * TimeScale}

\* An event that reaches no ClothSystem call: only the Application changes.
ApplicationOnly(a) ==
    /\ app' = a
    /\ nOps' = nOps + 1
    /\ UNCHANGED <<sim, call, mode>>

\* Application::initializePhysics: the preset of currentMode is applied to
\* the ClothSystem just made.
InitializePhysics ==
    /\ ~app.started
    /\ SetMode(app.currentMode)
    /\ app' = [app EXCEPT !.started = TRUE]

\* A fault for ApplicationUpdate: the frame delta is passed on unclamped.
ApplicationUpdateUnclamped(deltaTime) == Update(deltaTime)

\* Application::update: deltaTime = std::min(deltaTime, 0.016f), then
\* clothSystem->update(deltaTime).
ApplicationUpdate(deltaTime) ==
    Update(IF deltaTime < 48 THEN deltaTime ELSE 48)

\* One iteration of the loop of Application::run: update unless paused.
Frame(deltaTime) ==
    /\ app.started
    /\ IF app.paused
          THEN ApplicationOnly(app)
          ELSE ApplicationUpdate(deltaTime) /\ UNCHANGED app

\* Keys 1, 2, 3 of keyCallback and the combo of renderSimulationControls:
\* currentMode is assigned and then passed to setMode.
SelectMode(m) ==
    /\ app.started
    /\ SetMode(m)
    /\ app' = [app EXCEPT !.currentMode = m]

\* Key R and the Reset button.
PressReset == app.started /\ Reset /\ UNCHANGED app

\* Key SPACE and the Pause button.
TogglePause ==
    /\ app.started
    /\ ApplicationOnly([app EXCEPT !.paused = ~app.paused])

\* A fault for HandleClothInteraction: the mode is not asked.
HandleClothInteractionAnyMode(a, worldPos) ==
    HandleMouseInteraction(worldPos, TRUE) /\ app' = a

\* Application::handleClothInteraction, leaving the Application as a.
HandleClothInteraction(a, worldPos) ==
    IF a.currentMode = "TEAR"
       THEN HandleMouseInteraction(worldPos, TRUE) /\ app' = a
       ELSE ApplicationOnly(a)

\* mouseButtonCallback for the left button: a press is remembered and
\* handled, a release is remembered.
MouseButton(pressed, worldPos) ==
    /\ app.started
    /\ IF pressed
          THEN HandleClothInteraction([app EXCEPT !.leftMousePressed = TRUE],
                                      worldPos)
          ELSE ApplicationOnly([app EXCEPT !.leftMousePressed = FALSE])

\* cursorPosCallback: a move is handled while the button is held in TEAR.
CursorPos(worldPos) ==
    /\ app.started
    /\ IF app.leftMousePressed /\ app.currentMode = "TEAR"
          THEN HandleClothInteraction(app, worldPos)
          ELSE ApplicationOnly(app)

MaxFrames == 4

NextApplication ==
    \/ More(MaxFrames) /\ InitializePhysics
    \/ \E dt \in FrameDeltas : More(MaxFrames) /\ Frame(dt)
    \/ \E m \in Modes : More(MaxFrames) /\ SelectMode(m)
    \/ More(MaxFrames) /\ PressReset
    \/ More(MaxFrames) /\ TogglePause
    \/ \E pos \in MousePositions : More(MaxFrames) /\ CursorPos(pos)
    \/ \E pressed \in BOOLEAN, pos \in MousePositions :
            More(MaxFrames) /\ MouseButton(pressed, pos)

SpecApplication == InitPatrol /\ [][NextApplication]_vars

-----------------------------------------------------------------------------
(* Properties. *)

Particles == 1..Len(particles)

Springs == 1..Len(springs)

\* Spring k has particle i (0-based) as an endpoint.
Touches(k, i) == springs[k].particle1 = i \/ springs[k].particle2 = i

\* Spring k is inactive between two active particles: torn by tension.
TornByTension(k) ==
    /\ ~springs[k].active
    /\ At(particles, springs[k].particle1).active
    /\ At(particles, springs[k].particle2).active

\* The tolerance of "negligible": 0.01 units.
Epsilon == Scale \div 100

\* C1: a step of any operation other than reset and setMode turns no particle
\* and no spring from inactive to active, and keeps the size of both
\* containers: the active sets only shrink.
C1_ActiveSetsOnlyShrink ==
    [][call'.op \notin {"reset", "setMode"} =>
          /\ Len(particles') = Len(particles)
          /\ Len(springs') = Len(springs)
          /\ \A i \in Particles : particles'[i].active => particles[i].active
          /\ \A k \in Springs : springs'[k].active => springs[k].active]_vars

\* An update that ran sub-steps has returned with a particle deactivated
\* (by the pointer) and a spring torn by tension.
C1_Witness ==
    /\ call.op = "update"
    /\ call.steps > 0
    /\ \E i \in Particles : ~particles[i].active
    /\ \E k \in Springs : TornByTension(k)

\* C2: an update call leaves every pinned particle at the position it had.
C2_PinnedStayPut ==
    [][call'.op = "update" =>
          \A i \in Particles :
              particles[i].pinned =>
                  particles'[i].position = particles[i].position]_vars

\* C3: when an update call has returned, no active particle is inside a
\* sphere of the sphere list by more than Epsilon.
C3_NoParticleInsideSphere ==
    call.op = "update" =>
        \A i \in Particles, j \in 1..Len(spheres) :
            particles[i].active =>
                Length(VSub(particles[i].position, spheres[j].center))
                    >= spheres[j].radius - Epsilon

\* The particle (0-based) whose vertex is number v of the vertex buffer, read
\* off the vertex's texture coordinates.
VertexParticle(v) ==
    CHOOSE g \in 0..(gridWidth * gridHeight - 1) :
        /\ RDiv((g % gridWidth) * Scale, gridWidth - 1) = vertices[8 * v + 7]
        /\ RDiv((g \div gridWidth) * Scale, gridHeight - 1) = vertices[8 * v + 8]

\* C4: in every state a public operation leaves, every index of the index
\* buffer is the vertex of a particle that is active.
C4_MeshOnlyActive ==
    \A k \in 1..Len(indices) : At(particles, VertexParticle(indices[k])).active

\* C5: in the TEAR preset, handleMouseInteraction(p, true) deactivates every
\* active non-pinned particle nearer than tearRadius to p together with every
\* spring that has it as an endpoint; it leaves every particle at tearRadius
\* or farther from p as it was, and every spring neither of whose endpoints
\* it deactivated as it was.
C5_TearAtPointer ==
    [][(mode = "TEAR" /\ call'.op = "handleMouseInteraction" /\ call'.tearing) =>
          /\ \A i \in Particles :
                /\ (/\ particles[i].active
                    /\ ~particles[i].pinned
                    /\ Length(VSub(particles[i].position, call'.pos)) < tearRadius)
                   => /\ ~particles'[i].active
                      /\ \A k \in Springs : Touches(k, i - 1) => ~springs'[k].active
                /\ Length(VSub(particles[i].position, call'.pos)) >= tearRadius
                   => particles'[i] = particles[i]
          /\ \A k \in Springs :
                (/\ At(particles', springs[k].particle1).active
                        = At(particles, springs[k].particle1).active
                 /\ At(particles', springs[k].particle2).active
                        = At(particles, springs[k].particle2).active)
                => springs'[k] = springs[k]]_vars

\* Right after setMode(TEAR) the pointer has torn a non-pinned particle out
\* with all its springs, and another non-pinned particle is still active.
C5_Witness ==
    /\ mode = "TEAR"
    /\ call.op = "handleMouseInteraction"
    /\ call.tearing
    /\ call.after.op = "setMode"
    /\ \E i \in Particles :
          /\ ~particles[i].active
          /\ ~particles[i].pinned
          /\ Length(VSub(particles[i].position, call.pos)) < tearRadius
          /\ \E k \in Springs : Touches(k, i - 1)
          /\ \A k \in Springs : Touches(k, i - 1) => ~springs[k].active
    /\ \E j \in Particles : particles[j].active /\ ~particles[j].pinned
    /\ \E k \in Springs : springs[k].active

\* C6: a reset() called right after a reset() changes nothing of the
\* simulation state: particles, springs, spheres, derived mesh, parameters,
\* clocks.
C6_ResetIdempotent ==
    [][(call.op = "reset" /\ call'.op = "reset") => sim' = sim]_vars

\* reset() has been called twice in a row.
C6_Witness == call.op = "reset" /\ call.after.op = "reset"

SpringsOfType(t) == {k \in Springs : springs[k].type = t}

\* How far apart on the grid the endpoints of spring k are: <<|dx|, |dy|>>.
Reach(k) ==
    <<Abs((springs[k].particle2 % gridWidth) - (springs[k].particle1 % gridWidth)),
      Abs((springs[k].particle2 \div gridWidth)
            - (springs[k].particle1 \div gridWidth))>>

\* C7: after construction, reset or setMode there are W*H particles,
\* (W-1)*H + W*(H-1) structural, 2*(W-1)*(H-1) shear and (W-2)*H + W*(H-2)
\* bend springs and no others, and each spring's tag is that of the grid
\* neighbours it joins.
C7_GridCounts ==
    call.op \in {"construct", "reset", "setMode"} =>
        /\ Len(particles) = gridWidth * gridHeight
        /\ Cardinality(SpringsOfType("STRUCTURAL"))
              = (gridWidth - 1) * gridHeight + gridWidth * (gridHeight - 1)
        /\ Cardinality(SpringsOfType("SHEAR"))
              = 2 * (gridWidth - 1) * (gridHeight - 1)
        /\ Cardinality(SpringsOfType("BEND"))
              = (gridWidth - 2) * gridHeight + gridWidth * (gridHeight - 2)
        /\ Len(springs)
              = (gridWidth - 1) * gridHeight + gridWidth * (gridHeight - 1)
                + 2 * (gridWidth - 1) * (gridHeight - 1)
                + (gridWidth - 2) * gridHeight + gridWidth * (gridHeight - 2)
        /\ \A k \in SpringsOfType("STRUCTURAL") : Reach(k) \in {<<1, 0>>, <<0, 1>>}
        /\ \A k \in SpringsOfType("SHEAR") : Reach(k) = <<1, 1>>
        /\ \A k \in SpringsOfType("BEND") : Reach(k) \in {<<2, 0>>, <<0, 2>>}

\* A grid wider than high, with bend springs along X only, has been reset.
C7_Witness ==
    /\ call.op = "reset"
    /\ gridWidth > gridHeight
    /\ SpringsOfType("BEND") # {}

\* C8: setMode(COLLISION) leaves exactly the sphere of center (0, 1, 6) and
\* radius 0.8; setMode(TEAR) and setMode(FLAG) leave no sphere.
C8_PresetSpheres ==
    call.op = "setMode" =>
        spheres = (IF call.mode = "COLLISION"
                       THEN <<[center |-> <<0, 1000, 6000>>, radius |-> 800]>>
                       ELSE <<>>)

\* setMode(COLLISION) has been called right after a caller added a sphere.
C8_Witness ==
    /\ call.op = "setMode"
    /\ call.mode = "COLLISION"
    /\ call.after.op = "addSphere"

\* C9: while the COLLISION preset is in force the obstacle (the first
\* sphere) is within its path's extent around (0, 1, 6): at most
\* objectMoveRange before it along Z and not behind it, at most half the
\* range aside, and at its height.
C9_ObstacleInRange ==
    (mode = "COLLISION" /\ spheres # <<>>) =>
        /\ spheres[1].center[3] <= 6000 + Epsilon
        /\ spheres[1].center[3] >= 6000 - objectMoveRange - Epsilon
        /\ Abs(spheres[1].center[1]) <= (objectMoveRange \div 2) + Epsilon
        /\ spheres[1].center[2] = 1000

\* C10: reset and setMode leave W*H particles, all active, each at its
\* lattice position with oldPosition equal to it, and the springs exactly as
\* construction builds them (all active, rest lengths the lattice distances).
C10_Restored ==
    call.op \in {"reset", "setMode"} =>
        /\ Len(particles) = gridWidth * gridHeight
        /\ \A i \in Particles :
              /\ particles[i].active
              /\ particles[i].position
                    = GridPosition((i - 1) % gridWidth, (i - 1) \div gridWidth,
                                   gridWidth, gridHeight, clothWidth, clothHeight)
              /\ particles[i].oldPosition = particles[i].position
        /\ springs = GridSprings(particles, gridWidth, gridHeight)
        /\ \A k \in Springs :
              /\ springs[k].active
              /\ springs[k].restLength
                    = Length(VSub(At(particles, springs[k].particle2).position,
                                  At(particles, springs[k].particle1).position))

\* reset() has been called right after an update that ran sub-steps (and so
\* displaced the free particles).
C10_Witness ==
    /\ call.op = "reset"
    /\ call.after.op = "update"
    /\ call.after.steps > 0

\* C11: a ClothSystem whose grid width or height is below 2 is rejected at
\* construction: no update ever runs on such a grid.
C11_DegenerateRejected ==
    call.op = "update" => gridWidth >= 2 /\ gridHeight >= 2

\* C12: every update(dt) with dt >= 0 returns, having run as many sub-steps
\* as whole fixed steps fit into the carried remainder plus dt, and leaves
\* the remainder old + dt - n * fixedTimeStep, at least 0 and below one
\* fixed step.
C12_WholeStepsRun ==
    [][call'.op \in {"update", "update stalled"} =>
          /\ call'.op = "update"
          /\ call'.steps = (elapsedTime + call'.dt) \div fixedTimeStep
          /\ elapsedTime' = elapsedTime + call'.dt - call'.steps * fixedTimeStep
          /\ 0 <= elapsedTime' /\ elapsedTime' < fixedTimeStep]_vars

\* An update has returned after two sub-steps, with a remainder carried in
\* from the update before it.
C12_Returned ==
    /\ call.op = "update"
    /\ call.steps = 2
    /\ call.after.op = "update"
    /\ elapsedTime > 0

\* C13: what an update leaves in particles, springs and the generator is
\* what its sub-steps give when each runs, once and in this order, the
\* forces, the Verlet integration, three constraint passes and the
\* collisions, and each sub-step starts from what the one before it left.
C13_StagesInOrder ==
    [][call'.op = "update" =>
          \E seed \in SeedChoices :
              LET One(t) ==
                      LET f == applyForces(t[1], t[3], seed, gravity,
                                           windDirection, windStrength)
                          v == integrateVerlet(f[1], fixedTimeStep, damping)
                          c1 == satisfyConstraints(<<v, t[2]>>, tearThreshold)
                          c2 == satisfyConstraints(c1, tearThreshold)
                          c3 == satisfyConstraints(c2, tearThreshold)
                      IN  <<handleCollisions(c3[1], spheres), c3[2], f[2]>>
                  start == <<particles, springs, gen>>
                  end == IF call'.steps = 0 THEN start
                         ELSE IF call'.steps = 1 THEN One(start)
                         ELSE One(One(start))
              IN  /\ call'.steps \in 0..2
                  /\ particles' = end[1]
                  /\ springs' = end[2]
                  /\ gen' = end[3]]_vars

\* An update has returned after two sub-steps in which a sphere was present,
\* a free particle was moved and a spring was torn by tension.
C13_Witness ==
    /\ call.op = "update"
    /\ call.steps = 2
    /\ spheres # <<>>
    /\ \E k \in Springs : TornByTension(k)
    /\ \E i \in Particles :
          /\ particles[i].active
          /\ ~particles[i].pinned
          /\ particles[i].position # particles[i].oldPosition

\* C14, as stated: every update advances the obstacle's motion (its clock
\* objectMoveTime on the way forward, its angle on the way back) and the
\* clock of the wind variation by one frame's worth, whatever the number
\* of sub-steps.
C14_AdvancedOnce ==
    [][call'.op = "update" =>
          /\ \/ objectMoveTime' = objectMoveTime
                                    + RDiv(call'.dt * objectMoveSpeed, TimeScale)
             \/ angle' = angle + RDiv(call'.dt * objectMoveSpeed, TimeScale)
          /\ windVariationTime' = windVariationTime
                                    + RDiv(call'.dt * 3 * Scale, TimeScale)]_vars

\* C14, amended: an update advances the obstacle's motion by one frame's
\* worth if there is a sphere and leaves spheres and the motion's state
\* alone if there is none; it advances the wind variation's clock by one
\* frame's worth if windStrength is at least 1.0 and leaves it and the wind
\* direction alone otherwise; all this whatever the number of sub-steps, and
\* the mesh buffers it leaves are those of the particles it leaves.
C14_AdvancedOnceWhenPresent ==
    [][call'.op = "update" =>
          /\ IF spheres = <<>>
                THEN UNCHANGED <<spheres, objectMoveTime, angle, goingForward,
                                 startPosInit, startPos>>
                ELSE /\ Len(spheres') = Len(spheres)
                     /\ IF goingForward
                           THEN /\ objectMoveTime' = objectMoveTime
                                      + RDiv(call'.dt * objectMoveSpeed, TimeScale)
                                /\ spheres'[1].center[3] =
                                      startPos'[3] - objectMoveTime'
                           ELSE angle' = angle
                                      + RDiv(call'.dt * objectMoveSpeed, TimeScale)
          /\ IF windStrength < Scale
                THEN UNCHANGED <<windVariationTime, windDirection>>
                ELSE windVariationTime' = windVariationTime
                                            + RDiv(call'.dt * 3 * Scale, TimeScale)
          /\ vertices' = MeshVertices(vertices, particles', gridWidth, gridHeight)
          /\ indices' = MeshIndices(indices, particles', gridWidth, gridHeight)]_vars

\* An update with two sub-steps has returned in a wind of strength 1.0 or
\* more and with a sphere, both clocks advanced.
C14_Witness ==
    /\ call.op = "update"
    /\ call.steps = 2
    /\ windStrength >= Scale
    /\ windVariationTime > 0
    /\ spheres # <<>>
    /\ objectMoveTime > 4 * Scale

\* C15: a step of handleMouseInteraction(p, false) changes no particle, no
\* spring, no sphere, no parameter, no mesh buffer, nor any other member of
\* the simulation.
C15_NotTearingNoOp ==
    [][call'.op = "handleMouseInteraction" /\ ~call'.tearing =>
          sim' = sim /\ mode' = mode]_vars

\* handleMouseInteraction(p, false) has returned with an active particle
\* nearer than the tear radius to p.
C15_Witness ==
    /\ call.op = "handleMouseInteraction"
    /\ ~call.tearing
    /\ \E i \in Particles :
          /\ particles[i].active
          /\ Length(VSub(particles[i].position, call.pos)) < tearRadius

\* C16: in every reachable state there are gridWidth * gridHeight particles
\* and as many springs as createClothGrid builds for the grid, and the two
\* endpoints of every spring are distinct indices in [0, gridWidth *
\* gridHeight).
C16_ContainersKeepSize ==
    /\ Len(particles) = gridWidth * gridHeight
    /\ Len(springs)
          = (gridWidth - 1) * gridHeight + gridWidth * (gridHeight - 1)
            + 2 * (gridWidth - 1) * (gridHeight - 1)
            + (gridWidth - 2) * gridHeight + gridWidth * (gridHeight - 2)
    /\ \A k \in Springs :
          /\ springs[k].particle1 # springs[k].particle2
          /\ springs[k].particle1 \in 0..(gridWidth * gridHeight - 1)
          /\ springs[k].particle2 \in 0..(gridWidth * gridHeight - 1)

\* The pointer has torn a particle out of a cloth that an update with
\* sub-steps had moved, leaving inactive springs in the container.
C16_Witness ==
    /\ call.op = "handleMouseInteraction"
    /\ call.tearing
    /\ call.after.op = "update"
    /\ call.after.steps > 0
    /\ \E i \in Particles : ~particles[i].active
    /\ \E k \in Springs : ~springs[k].active

\* C17, as stated: in every state each spring's rest length is the distance
\* between the lattice positions of its two endpoints and is positive (so
\* no operation but a rebuild, which gives it that value again, changes
\* it), and a constraint pass on the untouched grid, all particles and
\* springs active and every particle at rest on its lattice position,
\* changes no particle and no spring.
C17_StressFree ==
    LET lattice(i) == GridPosition(i % gridWidth, i \div gridWidth, gridWidth,
                                   gridHeight, clothWidth, clothHeight)
    IN  /\ \A k \in Springs :
              /\ springs[k].restLength
                    = Length(VSub(lattice(springs[k].particle2),
                                  lattice(springs[k].particle1)))
              /\ springs[k].restLength > 0
        /\ (/\ \A k \in Springs : springs[k].active
            /\ \A i \in Particles :
                  /\ particles[i].active
                  /\ particles[i].position = lattice(i - 1)
                  /\ particles[i].oldPosition = lattice(i - 1))
           => satisfyConstraints(<<particles, springs>>, tearThreshold)
                 = <<particles, springs>>

\* C17, amended: the same, the constraint pass on the untouched grid being
\* without effect when tearThreshold is at least 1.
C17_StressFreeFromOne ==
    LET lattice(i) == GridPosition(i % gridWidth, i \div gridWidth, gridWidth,
                                   gridHeight, clothWidth, clothHeight)
    IN  /\ \A k \in Springs :
              /\ springs[k].restLength
                    = Length(VSub(lattice(springs[k].particle2),
                                  lattice(springs[k].particle1)))
              /\ springs[k].restLength > 0
        /\ (/\ tearThreshold >= Scale
            /\ \A k \in Springs : springs[k].active
            /\ \A i \in Particles :
                  /\ particles[i].active
                  /\ particles[i].position = lattice(i - 1)
                  /\ particles[i].oldPosition = lattice(i - 1))
           => satisfyConstraints(<<particles, springs>>, tearThreshold)
                 = <<particles, springs>>

\* The grid has been rebuilt by reset, under a tear threshold of 1.5, after
\* an update with sub-steps had moved the cloth.
C17_Witness ==
    /\ call.op = "reset"
    /\ call.after.op = "update"
    /\ call.after.steps > 0
    /\ tearThreshold = 3 * (Scale \div 2)
    /\ \A k \in Springs : springs[k].active

\* C18: in free fall each update that runs sub-steps leaves the free
\* particle lower than it was and not below the ground plane y = -5.0, as
\* long as it was above the plane; once it is on the plane every such
\* update leaves it on the plane.
C18_FallsThenRests ==
    [][call'.op = "update" /\ call'.steps > 0 /\ Alone =>
          IF particles[1].position[2] > -5 * Scale
              THEN /\ particles'[1].position[2] < particles[1].position[2]
                   /\ particles'[1].position[2] >= -5 * Scale
              ELSE particles'[1].position[2] = -5 * Scale]_vars

\* The free particle lies on the ground plane and at rest there, after an
\* update that followed an update.
C18_Witness ==
    /\ Alone
    /\ call.op = "update"
    /\ call.after.op = "update"
    /\ particles[1].active
    /\ ~particles[1].pinned
    /\ particles[1].position[2] = -5 * Scale
    /\ particles[1].oldPosition[2] = -5 * Scale

\* C19, as stated: a step of one of the five setters changes no particle,
\* spring, sphere or mesh buffer, and the update that follows a setter
\* leaves the particles and springs that its sub-steps give with the value
\* handed to the setter in place of the parameter it sets.
C19_ValueGivenIsUsed ==
    [][/\ call'.op \in {"setGravity", "setDamping", "setWindStrength",
                        "setWindDirection", "setTearThreshold"}
            => cloth' = cloth
       /\ call.op \in {"setGravity", "setDamping", "setWindStrength",
                       "setWindDirection", "setTearThreshold"}
          /\ call'.op = "update"
            => \E seed \in SeedChoices :
                  LET r == SubSteps(
                            [particles |-> particles, springs |-> springs,
                             gen |-> gen,
                             elapsedTime |-> Float(elapsedTime + call'.dt),
                             steps |-> 0],
                            seed, spheres,
                            IF call.op = "setGravity" THEN call.radius ELSE gravity,
                            IF call.op = "setDamping" THEN call.radius ELSE damping,
                            IF call.op = "setWindDirection" THEN call.pos
                                                            ELSE windDirection,
                            IF call.op = "setWindStrength" THEN call.radius
                                                           ELSE windStrength,
                            IF call.op = "setTearThreshold" THEN call.radius
                                                            ELSE tearThreshold)
                  IN  particles' = r.particles /\ springs' = r.springs]_vars

\* C19, amended: the same, the value used after setWindDirection(dir) being
\* the unit vector glm::normalize(dir).
C19_ValueGivenIsUsedNormalized ==
    [][/\ call'.op \in {"setGravity", "setDamping", "setWindStrength",
                        "setWindDirection", "setTearThreshold"}
            => cloth' = cloth
       /\ call.op \in {"setGravity", "setDamping", "setWindStrength",
                       "setWindDirection", "setTearThreshold"}
          /\ call'.op = "update"
            => \E seed \in SeedChoices :
                  LET r == SubSteps(
                            [particles |-> particles, springs |-> springs,
                             gen |-> gen,
                             elapsedTime |-> Float(elapsedTime + call'.dt),
                             steps |-> 0],
                            seed, spheres,
                            IF call.op = "setGravity" THEN call.radius ELSE gravity,
                            IF call.op = "setDamping" THEN call.radius ELSE damping,
                            IF call.op = "setWindDirection" THEN Normalize(call.pos)
                                                            ELSE windDirection,
                            IF call.op = "setWindStrength" THEN call.radius
                                                           ELSE windStrength,
                            IF call.op = "setTearThreshold" THEN call.radius
                                                            ELSE tearThreshold)
                  IN  particles' = r.particles /\ springs' = r.springs]_vars

\* An update with sub-steps has returned after setGravity(-20), with that
\* gravity in force and a free particle moved.
C19_Witness ==
    /\ call.op = "update"
    /\ call.steps > 0
    /\ call.after.op = "setGravity"
    /\ gravity = -20 * Scale
    /\ \E i \in Particles :
          ~particles[i].pinned /\ particles[i].position # particles[i].oldPosition

\* C20: for every active spring whose endpoints are both active, the pass's
\* turn for that spring, taken in the state at hand, leaves everything as
\* it is if the spring's length is 0; otherwise it deactivates the spring
\* if and only if the length exceeds restLength * tearThreshold, and when
\* it deactivates the spring it moves no particle.
C20_TearRule ==
    \A k \in Springs :
        LET p1 == At(particles, springs[k].particle1)
            p2 == At(particles, springs[k].particle2)
            len == Length(VSub(p2.position, p1.position))
            r == RelaxSpring(<<particles, springs>>, k, tearThreshold)
        IN  springs[k].active /\ p1.active /\ p2.active =>
                IF len = 0
                    THEN r = <<particles, springs>>
                    ELSE /\ ~r[2][k].active
                              <=> len * Scale > springs[k].restLength * tearThreshold
                         /\ ~r[2][k].active => r[1] = particles
                         /\ \A j \in Springs \ {k} : r[2][j] = springs[j]

\* A pass has run that tore a spring by tension and left another spring,
\* of positive length, active between active particles.
C20_Witness ==
    /\ call.op = "satisfyConstraints"
    /\ \E k \in Springs : TornByTension(k)
    /\ \E k \in Springs :
          /\ springs[k].active
          /\ At(particles, springs[k].particle1).active
          /\ At(particles, springs[k].particle2).active
          /\ Length(VSub(At(particles, springs[k].particle2).position,
                         At(particles, springs[k].particle1).position)) > 0

\* C21: a step of any operation other than reset and setMode leaves the
\* position and oldPosition of every inactive particle as they were, and in
\* the state it starts from the constraint pass's turn for a spring with an
\* inactive endpoint changes no particle and no spring.
C21_InactiveFrozen ==
    [][call'.op \notin {"reset", "setMode"} =>
          /\ \A i \in Particles :
                ~particles[i].active =>
                    /\ particles'[i].position = particles[i].position
                    /\ particles'[i].oldPosition = particles[i].oldPosition
          /\ \A k \in Springs :
                \/ At(particles, springs[k].particle1).active
                   /\ At(particles, springs[k].particle2).active
                \/ RelaxSpring(<<particles, springs>>, k, tearThreshold)
                        = <<particles, springs>>]_vars

\* An update with sub-steps has returned on a cloth in which a particle
\* that an earlier update had moved is inactive, beside an active free
\* particle in motion.
C21_Witness ==
    /\ call.op = "update"
    /\ call.steps > 0
    /\ call.after.op = "handleMouseInteraction"
    /\ \E i \in Particles :
          /\ ~particles[i].active
          /\ particles[i].position # particles[i].oldPosition
    /\ \E i \in Particles :
          /\ particles[i].active
          /\ ~particles[i].pinned
          /\ particles[i].position # particles[i].oldPosition

\* C22: in every state between public operations every particle, active or
\* not, is at or above the ground plane y = -5.0.
C22_AboveGround ==
    \A i \in Particles : particles[i].position[2] >= -5 * Scale

\* An update has just put the falling particle on the ground plane, its
\* oldPosition rewritten above the plane by the ground branch, with torn
\* particles beside it.
C22_Witness ==
    /\ call.op = "update"
    /\ particles[1].active
    /\ particles[1].position[2] = -5 * Scale
    /\ particles[1].oldPosition[2] > -5 * Scale
    /\ \E i \in Particles : ~particles[i].active

\* C23: after construction, reset, setMode and update the vertex buffer
\* holds eight floats for each active particle, in grid order with the
\* inactive ones left out and beginning with the particle's position; the
\* index buffer holds, for each grid quad with four active corners and in
\* grid order, the six compacted positions of its corners (top-left,
\* bottom-left, top-right, top-right, bottom-left, bottom-right); and every
\* index is below the number of active particles.
C23_MeshCompacted ==
    LET act(g) == At(particles, g).active
        rank(g) == Cardinality({h \in 0..(g - 1) : act(h)})
        count == Cardinality({g \in 0..(Len(particles) - 1) : act(g)})
        corner(q) == (q \div (gridWidth - 1)) * gridWidth + (q % (gridWidth - 1))
        quads == {q \in 0..((gridWidth - 1) * (gridHeight - 1) - 1) :
                    /\ act(corner(q)) /\ act(corner(q) + 1)
                    /\ act(corner(q) + gridWidth)
                    /\ act(corner(q) + gridWidth + 1)}
        place(q) == 6 * Cardinality({p \in quads : p < q})
    IN  call.op \in {"construct", "reset", "setMode", "update"} =>
            /\ Len(vertices) = 8 * count
            /\ \A g \in 0..(Len(particles) - 1) :
                  act(g) => SubSeq(vertices, 8 * rank(g) + 1, 8 * rank(g) + 3)
                                = At(particles, g).position
            /\ Len(indices) = 6 * Cardinality(quads)
            /\ \A j \in 1..Len(indices) : indices[j] \in 0..(count - 1)
            /\ \A q \in quads :
                  SubSeq(indices, place(q) + 1, place(q) + 6)
                      = <<rank(corner(q)), rank(corner(q) + gridWidth),
                          rank(corner(q) + 1), rank(corner(q) + 1),
                          rank(corner(q) + gridWidth),
                          rank(corner(q) + gridWidth + 1)>>

\* An update has rebuilt the mesh of a cloth in which a torn particle comes
\* before active ones in grid order and a quad still has four active
\* corners.
C23_Witness ==
    /\ call.op = "update"
    /\ indices # <<>>
    /\ \E i \in Particles, j \in Particles :
          i < j /\ ~particles[i].active /\ particles[j].active

\* C24: an update under a wind strength below 1.0 leaves the wind direction
\* and the clock of its variation as they were; an update under a wind
\* strength of 0 or less draws nothing from the turbulence generator, and
\* the force its sub-steps leave on every active free particle is gravity
\* alone.
C24_WindGated ==
    [][call'.op = "update" =>
          /\ windStrength < Scale
                => UNCHANGED <<windDirection, windVariationTime>>
          /\ windStrength <= 0
                => /\ gen' = gen
                   /\ call'.steps > 0
                        => \A i \in Particles :
                              particles'[i].active /\ ~particles'[i].pinned
                                => particles'[i].force
                                     = Vec3(0, Mul(gravity, particles'[i].mass), 0)]_vars

\* An update with sub-steps has returned under a wind of strength 0.5: a
\* free particle carries a wind force, and the variation's clock stands.
C24_Witness ==
    /\ call.op = "update"
    /\ call.steps > 0
    /\ windStrength = Scale \div 2
    /\ windVariationTime = 0
    /\ \E i \in Particles :
          /\ particles[i].active
          /\ ~particles[i].pinned
          /\ particles[i].force[1] # 0 \/ particles[i].force[3] # 0

\* C25: after setMode(COLLISION) the pinned particles are the two top
\* corners of the grid and no others; after setMode(TEAR) and setMode(FLAG)
\* they are the particles of the top row and no others.
C25_PinPatterns ==
    call.op = "setMode" =>
        {i \in 0..(Len(particles) - 1) : At(particles, i).pinned}
            = IF call.mode = "COLLISION"
                THEN {(gridHeight - 1) * gridWidth,
                      (gridHeight - 1) * gridWidth + (gridWidth - 1)}
                ELSE {(gridHeight - 1) * gridWidth + x : x \in 0..(gridWidth - 1)}

\* C26: under the reference caller, which clamps the frame delta to 0.016 s
\* before it calls update, every update call returns after at most one
\* physics sub-step, whatever the raw frame deltas were.
C26_OneSubStepPerFrame ==
    call.op \in {"update", "update stalled"} =>
        call.op = "update" /\ call.steps <= 1 /\ elapsedTime < fixedTimeStep

\* A clamped frame ran one sub-step right after another update, on the
\* remainder that update left.
C26_Witness ==
    /\ app.started
    /\ call.op = "update" /\ call.steps = 1 /\ call.dt = 48
    /\ call.after.op = "update" /\ call.after.steps = 1

\* C27: in every reachable state every active spring has two active
\* endpoints; a particle is deactivated only by handleMouseInteraction, which
\* in the same call deactivates every spring touching it, and a spring
\* becomes active again only in a call that rebuilds all particles, active.
C27_ActiveSpringsJoinActive ==
    /\ [](\A k \in Springs :
            springs[k].active =>
                /\ At(particles, springs[k].particle1).active
                /\ At(particles, springs[k].particle2).active)
    /\ [][/\ \A i \in Particles :
                (particles[i].active /\ ~particles'[i].active) =>
                    /\ call'.op = "handleMouseInteraction"
                    /\ \A k \in Springs : Touches(k, i - 1) => ~springs'[k].active
          /\ \A k \in Springs :
                (~springs[k].active /\ springs'[k].active) =>
                    /\ call'.op \in {"reset", "setMode"}
                    /\ \A i \in 1..Len(particles') : particles'[i].active]_vars

\* The physics has run a sub-step over a cloth the pointer tore just before:
\* a particle is out, and springs between active particles remain.
C27_Witness ==
    /\ call.op = "update" /\ call.steps >= 1
    /\ call.after.op = "handleMouseInteraction"
    /\ \E i \in Particles : ~particles[i].active
    /\ \E k \in Springs : springs[k].active
    /\ \E k \in Springs :
          /\ ~springs[k].active
          /\ At(particles, springs[k].particle1).active
             # At(particles, springs[k].particle2).active

\* C28: reset() rebuilds the particle and spring grid and the mesh and
\* nothing else: the collision spheres, gravity, damping, wind strength and
\* direction, tear threshold, the fixed-step remainder and the patrol and
\* wind-variation clocks are as before, and whatever preset was applied last
\* the pinned particles are exactly the top row.
C28_ResetRebuildsGridOnly ==
    [][call'.op = "reset" =>
          /\ UNCHANGED <<spheres, gravity, damping, windStrength, windDirection,
                         tearThreshold, elapsedTime, objectMoveTime,
                         windVariationTime, grid, statics>>
          /\ Len(particles') = gridWidth * gridHeight
          /\ \A i \in 1..Len(particles') :
                /\ particles'[i].active
                /\ particles'[i].oldPosition = particles'[i].position
                /\ particles'[i].position[3] = 0
                /\ particles'[i].pinned <=> (i - 1) >= gridWidth * (gridHeight - 1)
          /\ \A i \in 1..gridWidth :
                /\ particles'[i].position[2] = 0
                /\ particles'[Len(particles') - gridWidth + i].position[2]
                        = clothHeight
          /\ \A k \in 1..Len(springs') : springs'[k].active
          /\ Len(vertices') = 8 * gridWidth * gridHeight
          /\ Len(indices') = 6 * (gridWidth - 1) * (gridHeight - 1)]_vars

\* reset() was called on a cloth in the COLLISION preset whose clocks had
\* advanced and whose spheres were in place.
C28_Witness ==
    /\ call.op = "reset" /\ call.after.op = "update"
    /\ mode = "COLLISION" /\ Len(spheres) > 0
    /\ elapsedTime > 0 /\ objectMoveTime > 0

\* C29: in the Application's event loop currentMode always equals the mode
\* passed to setMode last; a handleMouseInteraction call is reached only
\* while that mode is TEAR, so in COLLISION and FLAG no pointer event
\* reaches it; and a step deactivates a particle only in TEAR.
C29_PointerTearsOnlyInTear ==
    /\ [](app.started => app.currentMode = mode)
    /\ [](call.op = "handleMouseInteraction" => mode = "TEAR")
    /\ [][(\E i \in Particles : particles[i].active /\ ~particles'[i].active)
            => /\ mode = "TEAR" /\ mode' = "TEAR"
               /\ call'.op = "handleMouseInteraction"]_vars

\* The COLLISION preset was selected and then the pointer was pressed within
\* reach of a particle: the press is remembered, no call followed setMode and
\* every particle is active.
C29_Witness ==
    /\ app.started /\ app.leftMousePressed
    /\ mode = "COLLISION" /\ app.currentMode = "COLLISION"
    /\ nOps = 3
    /\ call.op = "setMode" /\ call.after.op = "setMode"
    /\ \A i \in Particles : particles[i].active

=============================================================================
